---- MODULE Spec2Model ----
(***************************************************************************)
(* Model of the hybrid tool system of openai_mcp_hybrid.py: the registry   *)
(* of tool descriptors (all_tools), the native handler table               *)
(* (native_tools), the live set of backend connections (mcp_servers) and   *)
(* the MCPServerConnection objects themselves.                             *)
(*                                                                         *)
(* Python values are modelled as follows.                                  *)
(*   str            : a TLA+ string; f"{a}_{b}" is a \o "_" \o b           *)
(*   dict           : a sequence of [key, val] entries in insertion order  *)
(*                    (mcp_servers, whose iteration order matters), or a   *)
(*                    function (native_tools, only looked up by key)       *)
(*   list           : a sequence                                           *)
(*   object         : an index into the heap conns                         *)
(*   tool_prefix    : "" stands for both None and "", which the code's     *)
(*                    truthiness test does not tell apart                  *)
(*   await / raise  : the field outcome of the observation record last    *)
(***************************************************************************)
EXTENDS Integers, Sequences, FiniteSets, TLC

\* ---------------------------------------------------------------- bounds
MaxRegistry == 2
MaxConns == 2
MaxOrphaned == 1
MaxContent == 3
MaxListed == 2

\* inputs
ServerNames == {"s", "t"}
OrigNames == {"a", "b"}
NativeNames == {"a"}
Prefixes == {"", "s"}
Handlers == {"h1", "h2"}
ConnectSteps == {"transport", "session", "initialize", "list_tools"}

VARIABLES all_tools, native_tools, mcp_servers, conns, tasks, last

vars == <<all_tools, native_tools, mcp_servers, conns, tasks, last>>

\* ------------------------------------------------------------ helpers
Range(s) == {s[i] : i \in 1..Len(s)}

\* the tool lists a backend advertises (response.tools of list_tools)
ToolLists == {<<>>, <<"a">>, <<"a", "b">>}

\* f"{p}_{n}"
Join(p, n) == p \o "_" \o n

\* dict lookups on mcp_servers
HasKey(d, k) == \E i \in 1..Len(d) : d[i].key = k

Lookup(d, k) == d[CHOOSE i \in 1..Len(d) : d[i].key = k].val

\* d[k] = v : an existing key keeps its position, a new key goes last
DictSet(d, k, v) ==
    IF HasKey(d, k)
    THEN [i \in 1..Len(d) |-> IF d[i].key = k THEN [key |-> k, val |-> v] ELSE d[i]]
    ELSE Append(d, [key |-> k, val |-> v])

\* d.values()
Values(d) == [i \in 1..Len(d) |-> d[i].val]

\* native_tools[name] = function
SetHandler(native, name, function) ==
    [n \in DOMAIN native \cup {name} |-> IF n = name THEN function ELSE native[n]]

\* ------------------------------------------------- the observation record
NoCall ==
    [op |-> "init", name |-> "", prefix |-> "", handler |-> "", step |-> "",
     outcome |-> "ok", added |-> <<>>, attempted |-> <<>>, failing |-> {},
     pending |-> <<>>, target |-> 0, sent |-> "", requested |-> FALSE,
     invoked |-> "", message |-> "", content |-> <<>>, result |-> "",
     variant |-> "", calls |-> 0, handed |-> <<>>, listed |-> <<>>]

\* ------------------------------------------------- MCPServerConnection
\* __init__
\* stack: the AsyncExitStack in self.stack ("none" before the first connect);
\* entered: the contexts entered on it; session: self.session, "live" while
\* the stack that entered it has not been unwound; owns: self.stack is that
\* stack; ready: a connect of this object has returned; orphaned: earlier stacks
\* dropped with contexts still entered; wasClosed: close has unwound a stack
NewConnection(name) ==
    [name |-> name, stack |-> "none", entered |-> 0, session |-> "none",
     owns |-> FALSE, ready |-> FALSE, tools |-> <<>>, orphaned |-> 0,
     wasClosed |-> FALSE]

\* connect: step is the place where it raises, "ok" when it returns
ConnectResult(c, step, tools) ==
    LET fresh == [c EXCEPT !.stack = "open", !.entered = 0, !.owns = FALSE,
                           !.orphaned = IF c.stack = "open" /\ c.entered > 0
                                        THEN c.orphaned + 1 ELSE c.orphaned]
    IN  CASE step = "transport"  -> fresh
          [] step = "session"    -> [fresh EXCEPT !.entered = 1]
          [] step = "initialize" -> [fresh EXCEPT !.entered = 2, !.session = "live",
                                                  !.owns = TRUE]
          [] step = "list_tools" -> [fresh EXCEPT !.entered = 2, !.session = "live",
                                                  !.owns = TRUE]
          [] OTHER               -> [fresh EXCEPT !.entered = 2, !.session = "live",
                                                  !.owns = TRUE, !.ready = TRUE,
                                                  !.tools = tools]

\* close: aclose unwinds the whole stack, whether or not an exit raises
CloseResult(c) ==
    IF c.stack = "none" THEN c
    ELSE [c EXCEPT !.stack = "closed", !.entered = 0, !.wasClosed = TRUE,
                   !.session = IF c.owns THEN "dead" ELSE c.session]

\* aclose can raise only when it has a context to exit
CloseRaises(c, failing) == c.stack = "open" /\ c.entered > 0 /\ failing

\* call_tool: the possible observations. With self.session = None the
\* attribute access raises before anything is sent; otherwise the request is
\* handed to session.call_tool with no check of the connection's state, and
\* the outcome is the client library's
CallToolOutcomes(c) ==
    CASE c.session = "none" -> {[outcome |-> "raise", requested |-> FALSE]}
      [] c.session = "live" -> {[outcome |-> "ok", requested |-> TRUE],
                                [outcome |-> "raise", requested |-> TRUE]}
      [] OTHER              -> {[outcome |-> "raise", requested |-> TRUE],
                                [outcome |-> "hang", requested |-> TRUE]}

\* ------------------------------------------------------ HybridToolSystem
Init ==
    /\ all_tools = <<>>
    /\ native_tools = <<>>
    /\ mcp_servers = <<>>
    /\ conns = <<>>
    /\ tasks = <<>>
    /\ last = NoCall

\* lines 78-85; mcp: the descriptor has the keys _mcp_server (server) and
\* _mcp_original_name (original). The caller's description and parameters
\* are one value per name
NativeDef(name) ==
    [type |-> "function", name |-> name, description |-> "native " \o name,
     parameters |-> "schema", mcp |-> FALSE, server |-> "", original |-> ""]

add_native_tool(name, function) ==
    /\ Len(all_tools) < MaxRegistry
    /\ native_tools' = SetHandler(native_tools, name, function)
    /\ all_tools' = Append(all_tools, NativeDef(name))
    /\ last' = [NoCall EXCEPT !.op = "add_native_tool", !.name = name,
                              !.handler = function, !.added = <<name>>]
    /\ UNCHANGED <<mcp_servers, conns, tasks>>

\* a name also counts as taken while a connection that failed to connect exists
TakenOrFailedAttach(tool_name, native, tools) ==
    \/ tool_name \in DOMAIN native
    \/ \E i \in 1..Len(tools) : tools[i].name = tool_name
    \/ \E c \in 1..Len(conns) : ~conns[c].ready

\* line 102
Taken(tool_name, native, tools) ==
    \/ tool_name \in DOMAIN native
    \/ \E i \in 1..Len(tools) : tools[i].name = tool_name

\* line 99
Preferred(original, tool_prefix) ==
    IF tool_prefix # "" THEN Join(tool_prefix, original) ELSE original

\* lines 99-103
ResolveName(original, server_name, tool_prefix, native, tools) ==
    IF Taken(Preferred(original, tool_prefix), native, tools)
    THEN Join(server_name, original)
    ELSE Preferred(original, tool_prefix)

\* tool.description of the backend's tool
ToolDescription(original) == "tool " \o original

\* the literal of line 105
DefaultParameters == "{type: object, properties: {}}"

\* every tool gets the default, whatever it declares
ParametersAlwaysDefault(tool) == DefaultParameters

\* line 105, and line 59 of openai_mcp_bridge.py
Parameters(tool) ==
    IF tool.has_inputSchema THEN tool.inputSchema ELSE DefaultParameters

\* the tool object the backend lists under a name; "b" has no inputSchema
BackendTool(original) ==
    [name |-> original, has_inputSchema |-> (original # "b"),
     inputSchema |-> IF original # "b" THEN "schema " \o original ELSE ""]

InputSchema(original) == Parameters(BackendTool(original))

\* lines 107-116
McpDef(tool_name, server_name, original) ==
    [type |-> "function", name |-> tool_name,
     description |-> "[MCP:" \o server_name \o "] " \o ToolDescription(original),
     parameters |-> InputSchema(original),
     mcp |-> TRUE, server |-> server_name, original |-> original]

\* lines 97-117: the loop over server.tools
RECURSIVE RegisterTools(_, _, _, _, _)
RegisterTools(server_tools, server_name, tool_prefix, native, tools) ==
    IF server_tools = <<>> THEN tools
    ELSE RegisterTools(Tail(server_tools), server_name, tool_prefix, native,
             Append(tools,
                    McpDef(ResolveName(Head(server_tools), server_name, tool_prefix,
                                       native, tools),
                           server_name, Head(server_tools))))

\* the assignment of line 94 moved before the connect of line 92
LiveBeforeConnect(servers, server_name, c, step) ==
    DictSet(servers, server_name, c)

\* add_mcp_server without the assignment of line 94
LiveNeverRecorded(servers, server_name, c, step) == servers

\* lines 92-94: the live set after connect returned (step = "ok") or raised
LiveAfterConnect(servers, server_name, c, step) ==
    IF step = "ok" THEN DictSet(servers, server_name, c) ELSE servers

\* lines 92-117: the registry after connect returned or raised
RegistryAfterConnect(server_tools, server_name, tool_prefix, native, tools, step) ==
    IF step = "ok"
    THEN RegisterTools(server_tools, server_name, tool_prefix, native, tools)
    ELSE tools

\* server_tools is the response of list_tools, there is none when connect
\* raises
add_mcp_server(server_name, tool_prefix, server_tools, step) ==
    /\ Len(conns) < MaxConns
    /\ step # "ok" => server_tools = <<>>
    /\ Len(all_tools) + Len(server_tools) <= MaxRegistry
    /\ LET c == Len(conns) + 1
           reg == RegistryAfterConnect(server_tools, server_name, tool_prefix,
                                       native_tools, all_tools, step)
       IN  /\ conns' = Append(conns,
                   ConnectResult(NewConnection(server_name), step, server_tools))
           /\ mcp_servers' = LiveAfterConnect(mcp_servers, server_name, c, step)
           /\ all_tools' = reg
           /\ last' = [NoCall EXCEPT
                          !.op = "add_mcp_server", !.name = server_name,
                          !.prefix = tool_prefix, !.step = step,
                          !.outcome = IF step = "ok" THEN "ok" ELSE "raise",
                          !.target = c,
                          !.added = [i \in 1..(Len(reg) - Len(all_tools)) |->
                                        reg[Len(all_tools) + i].name]]
    /\ UNCHANGED <<native_tools, tasks>>

\* line 129 without the comparison of the name
McpMatchAnyName(tool_name, tools) ==
    IF \E i \in 1..Len(tools) : tools[i].mcp
    THEN CHOOSE i \in 1..Len(tools) :
            tools[i].mcp /\ \A j \in 1..(i - 1) : ~tools[j].mcp
    ELSE 0

\* lines 123-136: the first descriptor execute_tool dispatches to, 0 if none
McpMatch(tool_name, tools) ==
    IF \E i \in 1..Len(tools) : tools[i].name = tool_name /\ tools[i].mcp
    THEN CHOOSE i \in 1..Len(tools) :
            /\ tools[i].name = tool_name /\ tools[i].mcp
            /\ \A j \in 1..(i - 1) : ~(tools[j].name = tool_name /\ tools[j].mcp)
    ELSE 0

\* lines 128-134 without the return: the loop goes on to every descriptor of
\* that name
McpTargetsAll(tool_name, tools) ==
    SelectSeq([i \in 1..Len(tools) |-> i],
              LAMBDA i : tools[i].name = tool_name /\ tools[i].mcp)

\* lines 128-134: the descriptors the loop calls a backend for; the return of
\* line 134 leaves the loop at the first one
McpTargets(tool_name, tools) ==
    IF McpMatch(tool_name, tools) = 0 THEN <<>> ELSE <<McpMatch(tool_name, tools)>>

\* a call_tool that drops the connection when the request fails
SessionDroppedAfterFailedCall(c, r) ==
    IF r.outcome = "raise" THEN CloseResult(c) ELSE c

\* lines 47-56: the connection object after call_tool; the method assigns no
\* attribute of self
SessionAfterCall(c, r) == c

\* the exception a handler raises when it fails: the handler's own choice
HandlerException(function) ==
    IF function = "h1" THEN "ValueError" ELSE "RuntimeError"

\* lines 123-125: the handler execute_tool awaits; raises is the handler's
\* own. No try surrounds the await, the handler's exception leaves
\* execute_tool as it is
execute_native(obs, tool_name, raises) ==
    /\ tool_name \in DOMAIN native_tools
    /\ last' = [obs EXCEPT !.name = tool_name,
                           !.invoked = native_tools[tool_name],
                           !.calls = 1,
                           !.step = IF raises
                                    THEN HandlerException(native_tools[tool_name])
                                    ELSE "",
                           !.outcome = IF raises THEN "raise" ELSE "ok"]
    /\ UNCHANGED conns

\* lines 128-134
execute_mcp(obs, tool_name) ==
    /\ tool_name \notin DOMAIN native_tools
    /\ McpMatch(tool_name, all_tools) # 0
    /\ LET tool == all_tools[McpMatch(tool_name, all_tools)]
       IN  IF HasKey(mcp_servers, tool.server)
           THEN LET c == Lookup(mcp_servers, tool.server)
                IN  \E r \in CallToolOutcomes(conns[c]) :
                      /\ last' = [obs EXCEPT
                                    !.name = tool_name,
                                    !.target = c,
                                    !.sent = tool.original,
                                    !.calls = Len(McpTargets(tool_name, all_tools)),
                                    !.requested = r.requested,
                                    !.outcome = r.outcome]
                      /\ conns' = [conns EXCEPT ![c] = SessionAfterCall(conns[c], r)]
           ELSE /\ last' = [obs EXCEPT !.name = tool_name,
                                       !.outcome = "raise", !.step = "KeyError"]
                /\ UNCHANGED conns

\* line 136
execute_unknown(obs, tool_name) ==
    /\ tool_name \notin DOMAIN native_tools
    /\ McpMatch(tool_name, all_tools) = 0
    /\ last' = [obs EXCEPT !.name = tool_name,
                           !.outcome = "raise", !.step = "ValueError",
                           !.message = "Unknown tool: " \o tool_name]
    /\ UNCHANGED conns

\* lines 119-136, obs is the observation record the call fills in
Dispatch(obs, tool_name, raises) ==
    /\ \/ execute_native(obs, tool_name, raises)
       \/ ~raises /\ execute_mcp(obs, tool_name)
       \/ ~raises /\ execute_unknown(obs, tool_name)
    /\ UNCHANGED <<all_tools, native_tools, mcp_servers, tasks>>

execute_tool(tool_name, raises) ==
    Dispatch([NoCall EXCEPT !.op = "execute_tool"], tool_name, raises)

\* lines 197-198: the loop over mcp_servers.values(); failing is the set of
\* connections whose aclose raises. The result is the heap, the connections
\* close was called on, the ones never reached and the one that raised (0: none)
RECURSIVE CloseLoop(_, _, _, _)
CloseLoop(servers, failing, heap, attempted) ==
    IF servers = <<>>
    THEN [heap |-> heap, attempted |-> attempted, pending |-> <<>>, raised |-> 0]
    ELSE LET c == Head(servers)
             heap1 == [heap EXCEPT ![c] = CloseResult(heap[c])]
         IN  IF CloseRaises(heap[c], c \in failing)
             THEN [heap |-> heap1, attempted |-> Append(attempted, c),
                   pending |-> Tail(servers), raised |-> c]
             ELSE CloseLoop(Tail(servers), failing, heap1, Append(attempted, c))

close(failing) ==
    /\ LET r == CloseLoop(Values(mcp_servers), failing, conns, <<>>)
       IN  /\ conns' = r.heap
           /\ last' = [NoCall EXCEPT !.op = "close",
                                     !.attempted = r.attempted,
                                     !.pending = r.pending,
                                     !.failing = IF r.raised = 0 THEN {} ELSE {r.raised},
                                     !.target = r.raised,
                                     !.outcome = IF r.raised = 0 THEN "ok" ELSE "raise"]
    /\ UNCHANGED <<all_tools, native_tools, mcp_servers, tasks>>

ExecNames == {"a", "s_a", "nonexistent"}

\* the descriptors handed over as they are in the registry
KeepTools(tools) == tools

\* lines 142-152
CleanTools(tools) ==
    [i \in 1..Len(tools) |->
        [type |-> tools[i].type, name |-> tools[i].name,
         description |-> tools[i].description,
         parameters |-> tools[i].parameters]]

\* message.tool_calls of the first response
ToolCalls == {<<>>} \cup {<<n>> : n \in ExecNames}

\* lines 138-193: api_raises: a call of the model API raises; raises: the
\* native handler of the tool call raises
chat_completion(tool_calls, api_raises, raises) ==
    LET obs == [NoCall EXCEPT !.op = "chat_completion",
                              !.handed = CleanTools(all_tools)]
    IN  IF tool_calls = <<>>
        THEN /\ ~raises
             /\ last' = [obs EXCEPT !.outcome = IF api_raises THEN "raise" ELSE "ok",
                                    !.step = IF api_raises THEN "api" ELSE ""]
             /\ UNCHANGED <<all_tools, native_tools, mcp_servers, conns, tasks>>
        ELSE /\ ~api_raises
             /\ Dispatch(obs, tool_calls[1], raises)

Next ==
    \/ \E name \in NativeNames, function \in Handlers : add_native_tool(name, function)
    \/ \E server_name \in ServerNames, tool_prefix \in Prefixes,
          server_tools \in ToolLists, step \in ConnectSteps \cup {"ok"} :
            add_mcp_server(server_name, tool_prefix, server_tools, step)
    \/ \E tool_name \in ExecNames, raises \in BOOLEAN : execute_tool(tool_name, raises)
    \/ \E failing \in SUBSET Range(Values(mcp_servers)) : close(failing)

Spec == Init /\ [][Next]_vars

\* the registration phase followed by chat_completion calls
NextChat ==
    \/ \E name \in NativeNames, function \in Handlers : add_native_tool(name, function)
    \/ \E server_name \in ServerNames, tool_prefix \in Prefixes,
          server_tools \in ToolLists, step \in ConnectSteps \cup {"ok"} :
            add_mcp_server(server_name, tool_prefix, server_tools, step)
    \/ \E tool_calls \in ToolCalls, api_raises \in BOOLEAN, raises \in BOOLEAN :
          chat_completion(tool_calls, api_raises, raises)

SpecChat == Init /\ [][NextChat]_vars

\* ------------------------------------------------------------------------
\* MCPServerConnection driven directly, by any sequence of its methods
ConnNew(name) ==
    /\ Len(conns) < MaxConns
    /\ conns' = Append(conns, NewConnection(name))
    /\ last' = [NoCall EXCEPT !.op = "new", !.name = name, !.target = Len(conns) + 1]
    /\ UNCHANGED <<all_tools, native_tools, mcp_servers, tasks>>

ConnConnect(c, step, server_tools) ==
    /\ conns[c].orphaned < MaxOrphaned
    /\ step # "ok" => server_tools = <<>>
    /\ conns' = [conns EXCEPT ![c] = ConnectResult(conns[c], step, server_tools)]
    /\ last' = [NoCall EXCEPT !.op = "connect", !.target = c, !.step = step,
                              !.outcome = IF step = "ok" THEN "ok" ELSE "raise"]
    /\ UNCHANGED <<all_tools, native_tools, mcp_servers, tasks>>

ConnCallTool(c, tool_name) ==
    /\ \E r \in CallToolOutcomes(conns[c]) :
          /\ last' = [NoCall EXCEPT !.op = "call_tool", !.target = c,
                                    !.sent = tool_name, !.calls = 1,
                                    !.requested = r.requested, !.outcome = r.outcome]
          /\ conns' = [conns EXCEPT ![c] = SessionAfterCall(conns[c], r)]
    /\ UNCHANGED <<all_tools, native_tools, mcp_servers, tasks>>

ConnClose(c, failing) ==
    /\ conns' = [conns EXCEPT ![c] = CloseResult(conns[c])]
    /\ last' = [NoCall EXCEPT !.op = "conn_close", !.target = c,
                              !.outcome = IF CloseRaises(conns[c], failing)
                                          THEN "raise" ELSE "ok"]
    /\ UNCHANGED <<all_tools, native_tools, mcp_servers, tasks>>

NextConn ==
    \/ \E name \in ServerNames : ConnNew(name)
    \/ \E c \in 1..Len(conns), step \in ConnectSteps \cup {"ok"},
          server_tools \in ToolLists : ConnConnect(c, step, server_tools)
    \/ \E c \in 1..Len(conns), tool_name \in OrigNames : ConnCallTool(c, tool_name)
    \/ \E c \in 1..Len(conns), failing \in BOOLEAN : ConnClose(c, failing)

SpecConn == Init /\ [][NextConn]_vars

\* ------------------------------------------------------------------------
\* The normalisation of a remote result, applied to every result.content

\* a content item: has_text is hasattr(content, 'text')
TextValues == {"", "7", "8"}

ContentItems ==
    {[has_text |-> TRUE, text |-> v] : v \in TextValues}
        \cup {[has_text |-> FALSE, text |-> ""]}

Contents == UNION {[1..n -> ContentItems] : n \in 0..MaxContent}

\* the loop that appends the text of every item, with or without the attribute
CollectAll(content, texts) ==
    texts \o [i \in 1..Len(content) |-> content[i].text]

\* the loop over result.content
RECURSIVE CollectTexts(_, _)
CollectTexts(content, texts) ==
    IF content = <<>> THEN texts
    ELSE CollectTexts(Tail(content),
                      IF Head(content).has_text
                      THEN Append(texts, Head(content).text)
                      ELSE texts)

\* sep.join(texts)
RECURSIVE StrJoin(_, _)
StrJoin(sep, texts) ==
    IF texts = <<>> THEN ""
    ELSE IF Len(texts) = 1 THEN texts[1]
    ELSE texts[1] \o sep \o StrJoin(sep, Tail(texts))

\* MCPServerConnection.call_tool and OpenAIMCPBridge.call_mcp_tool
JoinTexts(content) == StrJoin("\n", CollectTexts(content, <<>>))

\* call_mcp_tool of MCPToolWrapper
JoinTextsOrNoResult(content) ==
    IF CollectTexts(content, <<>>) # <<>>
    THEN StrJoin("\n", CollectTexts(content, <<>>))
    ELSE "No result"

Normalized(variant, content) ==
    IF variant = "dynamic" THEN JoinTextsOrNoResult(content) ELSE JoinTexts(content)

\* the backend has answered a call with result.content
InitNorm ==
    /\ all_tools = <<>>
    /\ native_tools = <<>>
    /\ mcp_servers = <<>>
    /\ conns = <<>>
    /\ tasks = <<>>
    /\ \E content \in Contents :
          last = [NoCall EXCEPT !.op = "result", !.content = content]

Normalize(variant) ==
    /\ last.op = "result"
    /\ last' = [last EXCEPT !.op = "normalize", !.variant = variant,
                            !.result = Normalized(variant, last.content)]
    /\ UNCHANGED <<all_tools, native_tools, mcp_servers, conns, tasks>>

call_tool_text == Normalize("hybrid")

call_mcp_tool_text == Normalize("bridge")

call_mcp_tool_dynamic_text == Normalize("dynamic")

NextNorm ==
    \/ call_tool_text
    \/ call_mcp_tool_text
    \/ call_mcp_tool_dynamic_text

SpecNorm == InitNorm /\ [][NextNorm]_vars

\* ------------------------------------------------------------------------
\* add_mcp_server called by several tasks of one event loop. tasks holds the
\* frame of every coroutine in the order the calls were made; a coroutine is
\* suspended at the await of line 92 until its connect returns or raises, and
\* lines 94-117 hold no await
Frame(routine, pc) ==
    [routine |-> routine, pc |-> pc, server_name |-> "", tool_prefix |-> "",
     conn |-> 0, tools |-> <<>>, step |-> "", exc |-> FALSE]

\* lines 90-92, up to the await
add_mcp_server_call(server_name, tool_prefix) ==
    /\ Len(conns) < MaxConns
    /\ conns' = Append(conns, NewConnection(server_name))
    /\ tasks' = Append(tasks, [Frame("add_mcp_server", "connect") EXCEPT
                                  !.server_name = server_name,
                                  !.tool_prefix = tool_prefix,
                                  !.conn = Len(conns) + 1])
    /\ last' = [NoCall EXCEPT !.op = "add_mcp_server_call", !.name = server_name,
                              !.prefix = tool_prefix, !.target = Len(conns) + 1]
    /\ UNCHANGED <<all_tools, native_tools, mcp_servers>>

\* lines 92-117, from the completion of the connect of task k
add_mcp_server_resume(k, server_tools, step) ==
    /\ tasks[k].pc = "connect"
    /\ step # "ok" => server_tools = <<>>
    /\ Len(all_tools) + Len(server_tools) <= MaxRegistry
    /\ LET t == tasks[k]
           reg == RegistryAfterConnect(server_tools, t.server_name, t.tool_prefix,
                                       native_tools, all_tools, step)
       IN  /\ conns' = [conns EXCEPT ![t.conn] = ConnectResult(@, step, server_tools)]
           /\ mcp_servers' = LiveAfterConnect(mcp_servers, t.server_name, t.conn, step)
           /\ all_tools' = reg
           /\ tasks' = [tasks EXCEPT ![k] = [t EXCEPT !.pc = "done",
                                                      !.tools = server_tools,
                                                      !.step = step]]
           /\ last' = [NoCall EXCEPT
                          !.op = "add_mcp_server", !.name = t.server_name,
                          !.prefix = t.tool_prefix, !.step = step,
                          !.outcome = IF step = "ok" THEN "ok" ELSE "raise",
                          !.target = t.conn,
                          !.added = [i \in 1..(Len(reg) - Len(all_tools)) |->
                                        reg[Len(all_tools) + i].name]]
    /\ UNCHANGED native_tools

NextConc ==
    \/ \E server_name \in ServerNames, tool_prefix \in Prefixes :
          add_mcp_server_call(server_name, tool_prefix)
    \/ \E k \in 1..Len(tasks), server_tools \in ToolLists,
          step \in ConnectSteps \cup {"ok"} :
            add_mcp_server_resume(k, server_tools, step)

SpecConc == Init /\ [][NextConc]_vars

\* ------------------------------------------------------------------------
\* The main routines: openai_mcp_hybrid.main, openai_mcp_bridge.main,
\* langchain_mcp_simple.main and langchain_mcp_dynamic.main. tasks holds the
\* frame of the one main coroutine; its connection is conns[1]
Routines == {"hybrid", "bridge", "simple", "dynamic"}

\* setup_mcp_connection does not list the tools
MainConnectSteps(routine) ==
    IF routine = "simple" THEN ConnectSteps \ {"list_tools"} ELSE ConnectSteps

\* langchain_mcp_simple.main awaits setup_mcp_connection before its try
\* (line 87), the other routines connect inside the try
OpenInTry(routine) == routine # "simple"

\* where main goes when the connect returns or raises
AfterOpen(routine, step) ==
    IF step = "ok" THEN "chat"
    ELSE IF OpenInTry(routine) THEN "finally" ELSE "done"

\* the chat step followed by the clean-up with no try/finally around it
AfterChatNoFinally(raises) == IF raises THEN "done" ELSE "finally"

\* try ... finally: the clean-up runs whether the chat step returns or raises
AfterChat(raises) == "finally"

\* openai_mcp_hybrid.main lines 224-242
MainNativeNames == <<"get_current_time", "calculate_square">>

InitMain ==
    /\ all_tools = <<>>
    /\ native_tools = <<>>
    /\ mcp_servers = <<>>
    /\ conns = <<>>
    /\ last = NoCall
    /\ \E routine \in Routines : tasks = <<Frame(routine, "start")>>

\* from the start of main to the return of the connect
main_open(step, server_tools) ==
    /\ tasks[1].pc = "start"
    /\ step \in MainConnectSteps(tasks[1].routine) \cup {"ok"}
    /\ (step # "ok" \/ tasks[1].routine = "simple") => server_tools = <<>>
    /\ LET routine == tasks[1].routine
           name == IF routine = "hybrid" THEN "simple_server" ELSE routine
           native == SetHandler(SetHandler(<<>>, MainNativeNames[1], "h1"),
                                MainNativeNames[2], "h2")
           tools == <<NativeDef(MainNativeNames[1]), NativeDef(MainNativeNames[2])>>
       IN  /\ conns' = <<ConnectResult(NewConnection(name), step, server_tools)>>
           /\ IF routine = "hybrid"
              THEN /\ native_tools' = native
                   /\ all_tools' = RegistryAfterConnect(server_tools, name, "mcp",
                                                        native, tools, step)
                   /\ mcp_servers' = LiveAfterConnect(<<>>, name, 1, step)
              ELSE UNCHANGED <<native_tools, all_tools, mcp_servers>>
           /\ tasks' = <<[tasks[1] EXCEPT !.pc = AfterOpen(routine, step),
                                          !.conn = 1, !.step = step,
                                          !.tools = server_tools,
                                          !.exc = (step # "ok")]>>
           /\ last' = [NoCall EXCEPT !.op = "main_open", !.name = name,
                                     !.step = step, !.target = 1,
                                     !.outcome = IF step = "ok" THEN "ok" ELSE "raise"]

\* the chat or agent step: it may call a tool of the session; an exception of
\* the call or of the model API leaves the try block
main_chat(called, raises) ==
    /\ tasks[1].pc = "chat"
    /\ \E r \in IF called THEN CallToolOutcomes(conns[1])
                ELSE {[outcome |-> "ok", requested |-> FALSE]} :
          /\ r.outcome = "raise" => raises
          /\ last' = [NoCall EXCEPT !.op = "main_chat", !.target = 1,
                                    !.calls = IF called THEN 1 ELSE 0,
                                    !.requested = r.requested,
                                    !.outcome = IF raises THEN "raise" ELSE "ok"]
          /\ conns' = [conns EXCEPT ![1] = SessionAfterCall(conns[1], r)]
    /\ tasks' = <<[tasks[1] EXCEPT !.pc = AfterChat(raises), !.exc = raises]>>
    /\ UNCHANGED <<all_tools, native_tools, mcp_servers>>

\* the finally block: system.close(), bridge.close(), mcp_wrapper.close(), or
\* "if mcp_stack: await mcp_stack.aclose()"
main_finally(failing) ==
    /\ tasks[1].pc = "finally"
    /\ LET r == IF tasks[1].routine = "hybrid"
                THEN CloseLoop(Values(mcp_servers), IF failing THEN {1} ELSE {},
                               conns, <<>>)
                ELSE [heap |-> <<CloseResult(conns[1])>>, attempted |-> <<1>>,
                      pending |-> <<>>,
                      raised |-> IF CloseRaises(conns[1], failing) THEN 1 ELSE 0]
       IN  /\ conns' = r.heap
           /\ tasks' = <<[tasks[1] EXCEPT !.pc = "done",
                                          !.exc = (tasks[1].exc \/ r.raised # 0)]>>
           /\ last' = [NoCall EXCEPT !.op = "main_finally",
                                     !.attempted = r.attempted,
                                     !.target = r.raised,
                                     !.outcome = IF r.raised = 0 THEN "ok" ELSE "raise"]
    /\ UNCHANGED <<all_tools, native_tools, mcp_servers>>

NextMain ==
    \/ \E step \in ConnectSteps \cup {"ok"}, server_tools \in ToolLists :
          main_open(step, server_tools)
    \/ \E called \in BOOLEAN, raises \in BOOLEAN : main_chat(called, raises)
    \/ \E failing \in BOOLEAN : main_finally(failing)

\* asyncio.run drives main until it returns or raises
SpecMain == InitMain /\ [][NextMain]_vars /\ WF_vars(NextMain)

\* ------------------------------------------------------------------------
\* One run of the system with the log of its registrations: tasks holds, in
\* the order they were made, the add_native_tool calls and the add_mcp_server
\* calls whose connect returned. Failed attaches and close are not
\* registrations and leave the log alone
logged_add_native_tool(name, function) ==
    /\ Len(all_tools) < MaxRegistry
    /\ native_tools' = SetHandler(native_tools, name, function)
    /\ all_tools' = Append(all_tools, NativeDef(name))
    /\ tasks' = Append(tasks, [Frame("add_native_tool", "done") EXCEPT
                                  !.tools = <<name>>])
    /\ last' = [NoCall EXCEPT !.op = "add_native_tool", !.name = name,
                              !.handler = function, !.added = <<name>>]
    /\ UNCHANGED <<mcp_servers, conns>>

logged_add_mcp_server(server_name, tool_prefix, server_tools, step) ==
    /\ Len(conns) < MaxConns
    /\ step # "ok" => server_tools = <<>>
    /\ Len(all_tools) + Len(server_tools) <= MaxRegistry
    /\ LET c == Len(conns) + 1
           reg == RegistryAfterConnect(server_tools, server_name, tool_prefix,
                                       native_tools, all_tools, step)
       IN  /\ conns' = Append(conns,
                   ConnectResult(NewConnection(server_name), step, server_tools))
           /\ mcp_servers' = LiveAfterConnect(mcp_servers, server_name, c, step)
           /\ all_tools' = reg
           /\ tasks' = IF step = "ok"
                       THEN Append(tasks, [Frame("add_mcp_server", "done") EXCEPT
                                              !.server_name = server_name,
                                              !.tool_prefix = tool_prefix,
                                              !.tools = server_tools,
                                              !.step = step])
                       ELSE tasks
           /\ last' = [NoCall EXCEPT
                          !.op = "add_mcp_server", !.name = server_name,
                          !.prefix = tool_prefix, !.step = step,
                          !.outcome = IF step = "ok" THEN "ok" ELSE "raise",
                          !.target = c,
                          !.added = [i \in 1..(Len(reg) - Len(all_tools)) |->
                                        reg[Len(all_tools) + i].name]]
    /\ UNCHANGED native_tools

NextRuns ==
    \/ \E name \in NativeNames, function \in Handlers :
          logged_add_native_tool(name, function)
    \/ \E server_name \in ServerNames, tool_prefix \in Prefixes,
          server_tools \in ToolLists, step \in ConnectSteps \cup {"ok"} :
            logged_add_mcp_server(server_name, tool_prefix, server_tools, step)
    \/ \E failing \in SUBSET Range(Values(mcp_servers)) : close(failing)

SpecRuns == Init /\ [][NextRuns]_vars

\* ------------------------------------------------------------------------
\* The schema adaptation applied to every tool of a list_tools response, in
\* add_mcp_server and in OpenAIMCPBridge._convert_mcp_tools_to_openai
Schemas ==
    {"{}", "{type: object, properties: {}}", "{type: object, properties: {x}}"}

ToolObjects ==
    {[name |-> n, has_inputSchema |-> TRUE, inputSchema |-> sch] :
        n \in OrigNames, sch \in Schemas}
    \cup {[name |-> n, has_inputSchema |-> FALSE, inputSchema |-> ""] :
            n \in OrigNames}

Listings == UNION {[1..n -> ToolObjects] : n \in 0..MaxListed}

\* the descriptors built from a response; add_mcp_server puts the server
\* name before the description (line 111), the bridge does not (line 65)
Converted(variant, server_name, listed) ==
    [i \in 1..Len(listed) |->
        [type |-> "function", name |-> listed[i].name,
         description |-> IF variant = "hybrid"
                         THEN "[MCP:" \o server_name \o "] "
                                 \o ToolDescription(listed[i].name)
                         ELSE ToolDescription(listed[i].name),
         parameters |-> Parameters(listed[i])]]

\* the backend has answered list_tools
InitSchema ==
    /\ all_tools = <<>>
    /\ native_tools = <<>>
    /\ mcp_servers = <<>>
    /\ conns = <<>>
    /\ tasks = <<>>
    /\ \E listed \in Listings :
          last = [NoCall EXCEPT !.op = "list_tools", !.listed = listed]

Convert(variant, server_name) ==
    /\ last.op = "list_tools"
    /\ last' = [last EXCEPT !.op = "convert", !.variant = variant,
                            !.name = server_name,
                            !.handed = Converted(variant, server_name, last.listed)]
    /\ UNCHANGED <<all_tools, native_tools, mcp_servers, conns, tasks>>

\* lines 97-117 of openai_mcp_hybrid.py
add_mcp_server_parameters(server_name) == Convert("hybrid", server_name)

\* lines 53-71 of openai_mcp_bridge.py
convert_mcp_tools_to_openai == Convert("bridge", "")

NextSchema ==
    \/ \E server_name \in ServerNames : add_mcp_server_parameters(server_name)
    \/ convert_mcp_tools_to_openai

SpecSchema == InitSchema /\ [][NextSchema]_vars

\* ------------------------------------------------------------------------
\* The claims

\* the descriptors inserted by the step, in order
Inserted(before, after) ==
    [k \in 1..(Len(after) - Len(before)) |-> after[Len(before) + k]]

\* the registry as it was when the k-th descriptor of the step was inserted
RegistryAt(before, after, k) == SubSeq(after, 1, Len(before) + k - 1)

NameTaken(n, tools) == \E i \in 1..Len(tools) : tools[i].name = n

\* the candidates of the naming policy, in the order they are tried
Candidates(original, server_name, tool_prefix) ==
    << IF tool_prefix # "" THEN tool_prefix \o "_" \o original ELSE original,
       server_name \o "_" \o original >>

\* C1: the registry never holds two descriptors with equal name.
C1_Uniqueness ==
    \A i, j \in 1..Len(all_tools) :
        i # j => all_tools[i].name # all_tools[j].name

\* C2: add_native_tool under a name already in the registry fails, and
\* leaves the registry and the handler table unchanged.
C2_DuplicateNameRejected ==
    [][ (last'.op = "add_native_tool" /\ NameTaken(last'.name, all_tools))
          => /\ last'.outcome = "raise"
             /\ all_tools' = all_tools
             /\ native_tools' = native_tools ]_vars

\* C3: each remote tool is registered under the first candidate that is not
\* taken in the registry at the time it is inserted, one entry per tool.
C3_FirstFreeCandidate ==
    [][ (last'.op = "add_mcp_server" /\ last'.outcome = "ok")
          => LET server_tools == conns'[last'.target].tools
                 new == Inserted(all_tools, all_tools')
             IN  /\ Len(new) = Len(server_tools)
                 /\ SubSeq(all_tools', 1, Len(all_tools)) = all_tools
                 /\ \A k \in 1..Len(new) :
                      LET cand == Candidates(server_tools[k], last'.name, last'.prefix)
                          reg == RegistryAt(all_tools, all_tools', k)
                      IN  /\ new[k].original = server_tools[k]
                          /\ ~NameTaken(new[k].name, reg)
                          /\ new[k].name = IF ~NameTaken(cand[1], reg)
                                           THEN cand[1] ELSE cand[2] ]_vars

\* C4: when both candidates of a remote tool are taken, add_mcp_server fails
\* and inserts no descriptor under a taken name.
C4_UnresolvableCollision ==
    [][ (/\ last'.op = "add_mcp_server"
         /\ last'.step = "ok"
         /\ LET server_tools == conns'[last'.target].tools
            IN  \E k \in 1..Len(server_tools) :
                  LET cand == Candidates(server_tools[k], last'.name, last'.prefix)
                      reg == SubSeq(all_tools', 1,
                                    IF Len(all_tools') < Len(all_tools) + k - 1
                                    THEN Len(all_tools') ELSE Len(all_tools) + k - 1)
                  IN  NameTaken(cand[1], reg) /\ NameTaken(cand[2], reg))
          => /\ last'.outcome = "raise"
             /\ \A k \in 1..(Len(all_tools') - Len(all_tools)) :
                  ~NameTaken(all_tools'[Len(all_tools) + k].name,
                             RegistryAt(all_tools, all_tools', k)) ]_vars

\* C5: a name bound to a native handler stays bound to that handler, and
\* execute_tool on it invokes that handler and no remote tool.
C5_NativeNeverShadowed ==
    [][ \A n \in DOMAIN native_tools :
          /\ n \in DOMAIN native_tools'
          /\ native_tools'[n] = native_tools[n]
          /\ (last'.op = "execute_tool" /\ last'.name = n)
               => (last'.invoked = native_tools[n] /\ ~last'.requested) ]_vars

\* C6: when connect raises, at whichever step, add_mcp_server raises, the
\* connection is not in the live set, and the registry, the handler table,
\* the live set and the earlier connections are what they were.
C6_FailedConnectRegistersNothing ==
    [][ (last'.op = "add_mcp_server" /\ last'.step \in ConnectSteps)
          => /\ last'.outcome = "raise"
             /\ all_tools' = all_tools
             /\ native_tools' = native_tools
             /\ mcp_servers' = mcp_servers
             /\ \A i \in 1..Len(mcp_servers') : mcp_servers'[i].val # last'.target
             /\ SubSeq(conns', 1, Len(conns)) = conns ]_vars

\* a failed attach of a backend while a native tool and another backend's
\* tool are registered
C6_Witness ==
    /\ last.op = "add_mcp_server"
    /\ last.outcome = "raise"
    /\ last.step = "list_tools"
    /\ mcp_servers # <<>>
    /\ ~HasKey(mcp_servers, last.name)
    /\ \E i, j \in 1..Len(all_tools) : all_tools[i].mcp /\ ~all_tools[j].mcp

\* C7: close calls close on every connection of the live set, also when the
\* close of one of them raises.
C7_BestEffortTeardown ==
    last.op = "close"
      => \A i \in 1..Len(mcp_servers) :
            \E k \in 1..Len(last.attempted) : last.attempted[k] = mcp_servers[i].val

\* C8: the outcome of close is produced after every connection has been
\* attempted and lists exactly the connections whose close raised.
C8_ErrorsAggregated ==
    (last.op = "close" /\ last.failing # {})
      => /\ last.pending = <<>>
         /\ last.outcome = "raise"
         /\ \A c \in last.failing : \E k \in 1..Len(last.attempted) : last.attempted[k] = c

\* the state of a connection
Lifecycle(c) ==
    IF c.session = "live" /\ c.ready THEN "Open"
    ELSE IF c.wasClosed THEN "Closed"
    ELSE "Unopened"

Rank(state) ==
    CASE state = "Unopened" -> 0
      [] state = "Open" -> 1
      [] OTHER -> 2

\* C9: a connection moves only forward through Unopened, Open, Closed.
C9_LifecycleMonotonic ==
    [][ \A c \in 1..Len(conns) :
          Rank(Lifecycle(conns'[c])) >= Rank(Lifecycle(conns[c])) ]_vars

\* C10: call_tool on a connection that is not Open raises, hands no request
\* to the session and does not hang.
C10_CallOutsideOpenFails ==
    (last.op = "call_tool" /\ Lifecycle(conns[last.target]) # "Open")
      => (last.outcome = "raise" /\ ~last.requested)

\* C11: execute_tool on a name that no descriptor carries raises the error
\* naming it, invokes no handler and no backend, and changes nothing.
C11_UnknownToolRaises ==
    [][ (last'.op = "execute_tool" /\ ~NameTaken(last'.name, all_tools))
          => /\ last'.outcome = "raise"
             /\ last'.step = "ValueError"
             /\ last'.message = "Unknown tool: " \o last'.name
             /\ last'.invoked = ""
             /\ ~last'.requested
             /\ last'.target = 0
             /\ UNCHANGED <<all_tools, native_tools, mcp_servers, conns>> ]_vars

\* an unknown name executed while a native and a remote tool are registered
C11_Witness ==
    /\ last.op = "execute_tool"
    /\ last.name = "nonexistent"
    /\ last.outcome = "raise"
    /\ \E i, j \in 1..Len(all_tools) : all_tools[i].mcp /\ ~all_tools[j].mcp

\* C12: execute_tool on the resolved name of a remote tool issues call_tool
\* with the tool's original name on the session that registered it.
C12_RoutedToOwner ==
    last.op = "execute_tool"
      => \A i \in 1..Len(all_tools) :
            (all_tools[i].mcp /\ all_tools[i].name = last.name)
              => /\ last.requested
                 /\ last.sent = all_tools[i].original
                 /\ last.target # 0
                 /\ conns[last.target].name = all_tools[i].server

HasText(content) == \E i \in 1..Len(content) : content[i].has_text

\* the texts of the items that carry one, in order, with a newline between
\* two of them
RECURSIVE TextsByNewline(_)
TextsByNewline(content) ==
    IF content = <<>> THEN ""
    ELSE LET front == SubSeq(content, 1, Len(content) - 1)
             item == content[Len(content)]
         IN  IF ~item.has_text THEN TextsByNewline(front)
             ELSE IF ~HasText(front) THEN item.text
             ELSE TextsByNewline(front) \o "\n" \o item.text

\* C13: the normalized result is the texts of the Text items, in order,
\* joined by a newline; items without text do not change it.
C13_TextsJoined ==
    (last.op = "normalize" /\ HasText(last.content))
      => /\ last.result = TextsByNewline(last.content)
         /\ last.result =
              Normalized(last.variant, SelectSeq(last.content, LAMBDA x : x.has_text))
         /\ (last.content = <<[has_text |-> TRUE, text |-> "7"],
                              [has_text |-> FALSE, text |-> ""]>>)
               => last.result = "7"

\* two texts around an item without text, normalized by call_tool
C13_Witness ==
    /\ last.op = "normalize"
    /\ last.variant = "hybrid"
    /\ last.content = <<[has_text |-> TRUE, text |-> "7"],
                        [has_text |-> FALSE, text |-> ""],
                        [has_text |-> TRUE, text |-> "8"]>>
    /\ last.result = "7\n8"

\* C14: a result with no Text item normalizes to a sentinel that is not
\* what one empty Text item normalizes to.
C14_SentinelForNoText ==
    (last.op = "normalize" /\ ~HasText(last.content))
      => /\ last.result # ""
         /\ last.result # Normalized(last.variant, <<[has_text |-> TRUE, text |-> ""]>>)

\* C15: an execute_tool invocation issues at most one call, either one native
\* handler or one call_tool on one connection and never both; when that call
\* fails, execute_tool fails, and no connection other than the one called is
\* touched
C15_SingleCallNoRetry ==
    [][ last'.op = "execute_tool" =>
          /\ last'.calls <= 1
          /\ last'.invoked # "" => (last'.target = 0 /\ ~last'.requested /\ last'.calls = 1)
          /\ last'.requested => (last'.calls = 1 /\ last'.target # 0 /\ last'.invoked = "")
          /\ last'.calls = 0 => last'.outcome = "raise"
          /\ \A c \in 1..Len(conns) : c # last'.target => conns'[c] = conns[c]
      ]_vars

\* a registry holding the same remote name twice, the first behind a failing
\* call
C15_Witness ==
    /\ last.op = "execute_tool"
    /\ last.requested /\ last.outcome = "raise" /\ last.calls = 1
    /\ Len(McpTargetsAll(last.name, all_tools)) = 2

\* C16: no descriptor of a remote tool outlives its session: the registry
\* holds no descriptor whose session has been closed, and execute_tool never
\* resolves to a closed session
C16_NoDescriptorOfClosedSession ==
    /\ \A i \in 1..Len(all_tools) :
          (all_tools[i].mcp /\ HasKey(mcp_servers, all_tools[i].server)) =>
             conns[Lookup(mcp_servers, all_tools[i].server)].stack # "closed"
    /\ (last.op = "execute_tool" /\ last.target # 0) =>
          conns[last.target].stack # "closed"

\* the registry after the calls of the frames, one after the other in the
\* order they were made
RECURSIVE InRequestOrder(_, _, _)
InRequestOrder(frames, native, tools) ==
    IF frames = <<>> THEN tools
    ELSE InRequestOrder(Tail(frames), native,
             RegistryAfterConnect(Head(frames).tools, Head(frames).server_name,
                                  Head(frames).tool_prefix, native, tools,
                                  Head(frames).step))

\* C17: once all concurrent add_mcp_server calls have returned, every backend
\* tool has the resolved name that registering the backends in the order of
\* the calls gives it, whatever the order in which their connects completed
C17_RegisteredInRequestOrder ==
    (\A k \in 1..Len(tasks) : tasks[k].pc = "done") =>
        Range(all_tools) = Range(InRequestOrder(tasks, native_tools, <<>>))

Opened == \E c \in 1..Len(conns) : conns[c].ready

OpenedAreClosed ==
    \A c \in 1..Len(conns) : conns[c].ready => conns[c].stack = "closed"

\* C18: in every main routine a session whose open succeeded is eventually
\* closed, and it is closed when the routine ends, whether the chat step
\* returned or raised
C18_OpenedIsClosed ==
    /\ [](\A k \in 1..Len(tasks) : tasks[k].pc = "done" => OpenedAreClosed)
    /\ Opened ~> OpenedAreClosed

\* a main routine has ended after its chat step raised
C18_Witness ==
    /\ Len(tasks) = 1 /\ tasks[1].pc = "done" /\ tasks[1].step = "ok"
    /\ tasks[1].exc /\ last.op = "main_finally"
    /\ conns[1].ready /\ conns[1].stack = "closed"

RoutingKept(before, after) ==
    /\ Len(after) = Len(before)
    /\ \A i \in 1..Len(before) : after[i] = before[i]

\* C20: chat_completion hands over one descriptor per registry entry, in the
\* registry's order, each with the fields type, name, description and
\* parameters of the entry and no other field, and the registry itself is
\* unchanged, routing fields included
C20_RoutingFieldsStripped ==
    [][ last'.op = "chat_completion" =>
          /\ Len(last'.handed) = Len(all_tools)
          /\ \A i \in 1..Len(all_tools) :
                /\ DOMAIN last'.handed[i] = {"type", "name", "description", "parameters"}
                /\ last'.handed[i].type = all_tools[i].type
                /\ last'.handed[i].name = all_tools[i].name
                /\ last'.handed[i].description = all_tools[i].description
                /\ last'.handed[i].parameters = all_tools[i].parameters
          /\ RoutingKept(all_tools, all_tools')
          /\ \A i \in 1..Len(all_tools') :
                all_tools'[i].mcp => all_tools'[i].server # ""
      ]_vars

\* a registry with a native and a remote descriptor has been handed over
C20_Witness ==
    /\ last.op = "chat_completion" /\ Len(last.handed) = 2
    /\ ~all_tools[1].mcp /\ all_tools[2].mcp
    /\ all_tools[2].original # all_tools[2].name

\* the registry a fresh system has after the registrations of the log, made
\* one after the other
RECURSIVE Replay(_, _, _)
Replay(log, native, tools) ==
    IF log = <<>> THEN tools
    ELSE IF Head(log).routine = "add_native_tool"
         THEN Replay(Tail(log), SetHandler(native, Head(log).tools[1], "h1"),
                     Append(tools, NativeDef(Head(log).tools[1])))
         ELSE Replay(Tail(log), native,
                     RegisterTools(Head(log).tools, Head(log).server_name,
                                   Head(log).tool_prefix, native, tools))

C22_SchemaAdapted ==
    last.op = "convert" =>
        /\ last.outcome = "ok"
        /\ Len(last.handed) = Len(last.listed)
        /\ \A i \in 1..Len(last.listed) :
              /\ last.listed[i].has_inputSchema =>
                    last.handed[i].parameters = last.listed[i].inputSchema
              /\ ~last.listed[i].has_inputSchema =>
                    last.handed[i].parameters = "{type: object, properties: {}}"

\* a response with a tool that declares a schema and one that declares none
C22_Witness ==
    /\ last.op = "convert" /\ Len(last.listed) = 2
    /\ last.listed[1].has_inputSchema
    /\ last.listed[1].inputSchema = "{type: object, properties: {x}}"
    /\ ~last.listed[2].has_inputSchema
    /\ last.handed[1].parameters # last.handed[2].parameters

\* C23: a failure of a native handler leaves execute_tool as
\* NativeToolFailed, an outcome of its own kind, which is not the ValueError
\* of an unknown tool
C23_NativeFailureWrapped ==
    (last.op = "execute_tool" /\ last.invoked # "" /\ last.outcome = "raise") =>
        /\ last.step = "NativeToolFailed"
        /\ last.step # "ValueError"

Live == Range(Values(mcp_servers))

\* C24: a session that add_mcp_server connected stays in the live set until
\* it is closed, and a close that returns has closed every connected session
C24_ConnectedAreClosed ==
    /\ \A c \in 1..Len(conns) :
          (conns[c].ready /\ conns[c].stack = "open") => c \in Live
    /\ (last.op = "close" /\ last.outcome = "ok") =>
          \A c \in 1..Len(conns) : conns[c].ready => conns[c].stack = "closed"

\* C25: after close has run, no connection whose connect failed part-way
\* still holds a context entered on its exit stack
C25_PartialOpenReleased ==
    last.op = "close" =>
        \A c \in 1..Len(conns) : ~conns[c].ready => conns[c].entered = 0

\* C26: every remote descriptor names a key of mcp_servers, and execute_tool
\* never fails on a missing entry
C26_DescriptorHasLiveEntry ==
    /\ \A i \in 1..Len(all_tools) :
          all_tools[i].mcp => HasKey(mcp_servers, all_tools[i].server)
    /\ last.step # "KeyError"

\* a remote tool has been dispatched in a system that also had a failed
\* attach and a close
C26_Witness ==
    /\ last.op = "execute_tool" /\ last.target # 0
    /\ all_tools[McpMatch(last.name, all_tools)].server = conns[last.target].name
    /\ \E c \in 1..Len(conns) : ~conns[c].ready
    /\ conns[last.target].wasClosed

====
